---- MODULE Spec2Model ----
(***************************************************************************)
(* Playback session of music-bag-app: the AudioProvider React component    *)
(* (src/src/core/providers/AudioProvider.tsx) driving expo-av Audio.Sound  *)
(* handles, together with the BackgroundAudioManager singleton it updates. *)
(*                                                                         *)
(* React semantics kept by the model: every function of the provider is a  *)
(* closure of one render, so it reads the state values of that render.     *)
(* A command issued by the UI runs the closure of the latest render        *)
(* (CurEnv); the status callback handed to Audio.Sound.createAsync is the  *)
(* closure of the render whose playAudio created the sound, and keeps      *)
(* reading that render's values (the env field of a sound) for as long as  *)
(* the sound lives.  State setters are plain assignments that the next     *)
(* render commits; within one handler the last setter call wins.           *)
(***************************************************************************)
EXTENDS Integers, Sequences, FiniteSets, TLC

\* ----------------------------------------------------------------- bounds
NumTracks == 2
MaxSounds == 2
MaxLoads == 2
MaxPos == 1
MaxSteps == 4
MaxTimers == 2
MaxTicks == 6
RepeatSteps == 5
SimMillis == 12000
MaxInFlight == 2
MaxDownloads == 4
MaxConcurrency == 3
StatusMillis == 500

\* ------------------------------------------------- constants of the code
\* playAsync attempts of one health check, and of one emergencyRestart
ResumeAttempts == 5
EmergencyAttempts == 10

\* ------------------------------------------------------ values of the code
Null == 0
Undef == 0 - 1
NoIndex == 0 - 9
NotFound == 0 - 1

Tracks == 1..NumTracks
MaxLen == NumTracks
Positions == 0..MaxPos
\* the seconds a caller can pass to seekTo: every position of a track, one
\* below and one above
SeekArgs == (0 - 1)..(MaxPos + 1)
SoundIds == 1..MaxSounds

\* durationMillis / 1000 reported by a loaded sound
TrackDuration(t) == MaxPos

\* the track lists a caller can pass: the downloaded audios of the library or
\* of one folder, in library order (DownloadedAudio records with distinct ids)
Lists ==
  {s \in UNION {[1..n -> Tracks] : n \in 0..MaxLen} :
     \A i, j \in DOMAIN s : i < j => s[i] < s[j]}

\* the index arguments a caller can pass with a list: every index of the list,
\* one below and one above
IndexArgs(list) == (0 - 1)..Len(list)

\* ------------------------------------------------------------ JS arrays
\* array[i] with a 0-based index: undefined outside the array
At(s, i) == IF i >= 0 /\ i < Len(s) THEN s[i + 1] ELSE Undef

\* array.findIndex(a => a.id === id): first 0-based position, -1 if absent
FindIndex(s, id) ==
  IF \E k \in DOMAIN s : s[k] = id
    THEN (CHOOSE k \in DOMAIN s : s[k] = id /\ \A m \in 1..(k - 1) : s[m] # id) - 1
    ELSE NotFound

\* array.splice(i, 1) for an index inside the array
RemoveAt(s, i) == [k \in 1..(Len(s) - 1) |-> IF k <= i THEN s[k] ELSE s[k + 1]]

\* [a[i], a[j]] = [a[j], a[i]] with 0-based i, j
Swap(s, i, j) ==
  [k \in DOMAIN s |-> IF k = i + 1 THEN s[j + 1] ELSE IF k = j + 1 THEN s[i + 1] ELSE s[k]]

\* the Fisher-Yates loop of toggleShuffle: for i = length-1 down to 1, swap
\* a[i] with a[js[i]], js[i] = floor(random * (i + 1)) in 0..i
RECURSIVE FisherYates(_, _, _)
FisherYates(s, i, js) ==
  IF i <= 0 THEN s ELSE FisherYates(Swap(s, i, js[i]), i - 1, js)

\* the random draws one run of the loop can make on an array of length n
RandomDraws(n) ==
  {js \in [1..(n - 1) -> 0..(n - 1)] : \A i \in 1..(n - 1) : js[i] <= i}

\* ------------------------------------------------------------------ state
VARIABLES
  currentAudio,            \* useState: track id or Null
  isPlaying,               \* useState
  position,                \* useState, seconds
  duration,                \* useState, seconds
  isBuffering,             \* useState
  playlist,                \* useState: sequence of track ids
  currentIndex,            \* useState: 0-based index
  isShuffled,              \* useState
  isRepeating,             \* useState
  originalPlaylist,        \* useState
  soundRef,                \* useRef: sound id or Null
  positionUpdateInterval,  \* useRef: TRUE while the 1 s interval is scheduled
  bgCurrentAudio,          \* backgroundAudioManager.currentAudio
  bgSound,                 \* backgroundAudioManager.sound
  bgIsPlaying,             \* backgroundAudioManager.isPlaying (the playing hint)
  backgroundTaskId,        \* backgroundAudioManager.backgroundTaskId
  sounds,                  \* the Audio.Sound objects created so far
  loads,                   \* Audio.Sound.createAsync calls not yet settled
  lastOp,                  \* the last step: handler, sound it came from, list and index passed
  steps,                   \* number of handler runs so far
  budget,                  \* number of handler runs explored
  pristine,                \* the list of the last setPlaylist call, <<>> once another
                           \* call than toggleShuffle, playNext, playPrevious followed it
  mounted,                 \* the AudioProvider component is mounted
  appState,                \* AppState.currentState
  subscribed,              \* the manager's AppState listener is registered
  healthChecks,            \* number of scheduled intervals of startContinuousBackgroundTask
  stuckTicks,              \* consecutive health checks that found the sound stopped and left it so
  emergencyRestarts,       \* emergencyRestart calls made by those health checks
  tickPlays,               \* playAsync calls made by the last health check
  tickPhase,               \* alternates with every health check
  storage,                 \* AsyncStorage: the stored keys and their strings
  loadedPosition,          \* what the last getPlayerPosition call returned, in ms
  tracker,                 \* the code that follows the position of a playing track
  playedMillis,            \* ms of continuous playback that code has seen
  writes,                  \* savePlayerPosition calls it has made
  environment,             \* Constants.appOwnership and Platform.OS of the build
  fetchTask,               \* BackgroundFetch.registerTaskAsync('background-audio-task') was called
  pausing,                 \* a pauseAudio call is awaiting its pauseAsync
  inFlight,                \* the health checks that are inside their recovery sequence,
                           \* each with the attempt at which its playAsync succeeds
  download                 \* one downloadMultipleParallel call: its arguments, its position,
                           \* activePromises, the downloads not yet settled, results

vars == <<currentAudio, isPlaying, position, duration, isBuffering, playlist,
          currentIndex, isShuffled, isRepeating, originalPlaylist, soundRef,
          positionUpdateInterval, bgCurrentAudio, bgSound, bgIsPlaying,
          backgroundTaskId, sounds, loads, lastOp, steps, budget, pristine, mounted,
          appState, subscribed, healthChecks, stuckTicks, emergencyRestarts,
          tickPlays, tickPhase, storage, loadedPosition, tracker, playedMillis,
          writes, environment, fetchTask, pausing, inFlight, download>>

\* the builds the application runs as
Environments == [appOwnership : {"expo", "standalone"}, os : {"ios", "android"}]

Standalone == [appOwnership |-> "standalone", os |-> "ios"]

\* isExpoGo()
isExpoGo == environment.appOwnership = "expo"

\* supportsBackgroundAudio(): a standalone build, or Expo Go on Android
SupportsBackgroundAudio == ~isExpoGo \/ environment.os = "android"

\* the values a closure of the current render reads
CurEnv ==
  [playlist |-> playlist, currentIndex |-> currentIndex,
   isRepeating |-> isRepeating, currentAudio |-> currentAudio]

NoEnv == [playlist |-> <<>>, currentIndex |-> 0, isRepeating |-> FALSE, currentAudio |-> Null]

\* a slot of sounds that holds no sound object
NoSound == [track |-> Null, loaded |-> FALSE, playing |-> FALSE, env |-> NoEnv, stale |-> FALSE]

\* the whole state as one record, the form the handlers below transform
Cur ==
  [currentAudio |-> currentAudio, isPlaying |-> isPlaying, position |-> position,
   duration |-> duration, isBuffering |-> isBuffering, playlist |-> playlist,
   currentIndex |-> currentIndex, isShuffled |-> isShuffled,
   isRepeating |-> isRepeating, originalPlaylist |-> originalPlaylist,
   soundRef |-> soundRef, positionUpdateInterval |-> positionUpdateInterval,
   bgCurrentAudio |-> bgCurrentAudio, bgSound |-> bgSound,
   bgIsPlaying |-> bgIsPlaying, backgroundTaskId |-> backgroundTaskId,
   sounds |-> sounds, loads |-> loads, healthChecks |-> healthChecks,
   fetchTask |-> fetchTask, pausing |-> pausing, inFlight |-> inFlight]

\* sound objects nothing refers to any more and that are unloaded are gone
Collect(snds, refs) ==
  [h \in SoundIds |-> IF ~snds[h].loaded /\ h \notin refs THEN NoSound ELSE snds[h]]

\* the steps that leave the order installed by setPlaylist in force: the
\* shuffle toggle, the navigation calls and the sound events they cause
KeepsPristine == {"toggleShuffle", "playNext", "playPrevious", "loadDone", "status"}

\* the state a handler or a callback of the manager produced becomes current
Install(s, op, h, list, index) ==
  /\ currentAudio' = s.currentAudio
  /\ isPlaying' = s.isPlaying
  /\ position' = s.position
  /\ duration' = s.duration
  /\ isBuffering' = s.isBuffering
  /\ playlist' = s.playlist
  /\ currentIndex' = s.currentIndex
  /\ isShuffled' = s.isShuffled
  /\ isRepeating' = s.isRepeating
  /\ originalPlaylist' = s.originalPlaylist
  /\ soundRef' = s.soundRef
  /\ positionUpdateInterval' = s.positionUpdateInterval
  /\ bgCurrentAudio' = s.bgCurrentAudio
  /\ bgSound' = s.bgSound
  /\ bgIsPlaying' = s.bgIsPlaying
  /\ backgroundTaskId' = s.backgroundTaskId
  /\ sounds' = Collect(s.sounds, {s.soundRef, s.bgSound})
  /\ loads' = s.loads
  /\ lastOp' = [name |-> op, sound |-> h, list |-> list, index |-> index]
  /\ healthChecks' = s.healthChecks
  /\ budget' = budget
  /\ fetchTask' = s.fetchTask
  /\ pausing' = s.pausing
  /\ inFlight' = s.inFlight
  /\ download' = download
  /\ environment' = environment
  /\ UNCHANGED <<storage, loadedPosition, tracker, playedMillis, writes>>
  /\ pristine' = IF op = "setPlaylist" THEN list
                 ELSE IF op \in KeepsPristine THEN pristine ELSE <<>>

\* the next render of the mounted provider commits the state a handler produced
Commit(s, op, h, list, index) ==
  /\ mounted
  /\ steps < budget
  /\ steps' = steps + 1
  /\ Install(s, op, h, list, index)
  /\ UNCHANGED <<mounted, appState, subscribed, stuckTicks, emergencyRestarts, tickPlays, tickPhase>>

\* no downloadMultipleParallel call has been made
NoDownload ==
  [list |-> 0, maxConcurrency |-> 0, pc |-> "none", next |-> 1,
   activePromises |-> {}, running |-> {}, results |-> <<>>]

\* the state after construction of the provider and of the manager
Constructed ==
  /\ currentAudio = Null
  /\ isPlaying = FALSE
  /\ position = 0
  /\ duration = 0
  /\ isBuffering = FALSE
  /\ playlist = <<>>
  /\ currentIndex = 0
  /\ isShuffled = FALSE
  /\ isRepeating = FALSE
  /\ originalPlaylist = <<>>
  /\ soundRef = Null
  /\ positionUpdateInterval = FALSE
  /\ bgCurrentAudio = Null
  /\ bgSound = Null
  /\ bgIsPlaying = FALSE
  /\ backgroundTaskId = "null"
  /\ sounds = [h \in SoundIds |-> NoSound]
  /\ loads = <<>>
  /\ lastOp = [name |-> "init", sound |-> Null, list |-> <<>>, index |-> NoIndex]
  /\ steps = 0
  /\ pristine = <<>>
  /\ mounted = TRUE
  /\ appState = "active"
  /\ subscribed = TRUE
  /\ healthChecks = 0
  /\ stuckTicks = 0
  /\ emergencyRestarts = 0
  /\ tickPlays = 0
  /\ tickPhase = FALSE
  /\ storage = <<>>
  /\ loadedPosition = 0
  /\ playedMillis = 0
  /\ writes = 0
  /\ fetchTask = SupportsBackgroundAudio   \* setupBackgroundFetch of the constructor
  /\ pausing = FALSE
  /\ inFlight = <<>>
  /\ download = NoDownload

Init ==
  /\ environment = Standalone
  /\ Constructed
  /\ budget = MaxSteps
  /\ tracker = [kind |-> "poller", audio |-> Null]

\* ------------------------------------------------------- Audio.Sound
\* sound.unloadAsync(): the sound stops and is no longer loaded
Unload(snds, h) ==
  IF h = Null THEN snds
  ELSE [snds EXCEPT ![h] = [@ EXCEPT !.loaded = FALSE, !.playing = FALSE]]

\* every sound and every pending load belongs to a superseded playAudio call
\* once a later playAudio call has started
Supersede(snds) == [h \in SoundIds |-> IF snds[h] = NoSound THEN NoSound ELSE [snds[h] EXCEPT !.stale = TRUE]]
SupersedeLoads(lds) == [k \in DOMAIN lds |-> [lds[k] EXCEPT !.stale = TRUE]]

\* ------------------------------------------------- handlers of the provider
\* startPositionUpdates / stopPositionUpdates
startPositionUpdates(s) == [s EXCEPT !.positionUpdateInterval = TRUE]
stopPositionUpdates(s) == [s EXCEPT !.positionUpdateInterval = FALSE]

\* playAudio up to the call of Audio.Sound.createAsync, run by a closure
\* that reads the render values e
playAudio(s, audio, playlistContext, explicitIndex, e) ==
  IF audio = Undef
    THEN \* audio.title throws inside the try: the catch block runs
         [s EXCEPT !.isPlaying = FALSE, !.bgIsPlaying = FALSE]
    ELSE
      LET unloaded == Unload(s.sounds, s.soundRef)
          s1 == [s EXCEPT !.sounds = Supersede(unloaded),
                          !.currentAudio = audio,
                          !.bgCurrentAudio = audio]
          s2 ==
            IF Len(playlistContext) > 0
              THEN LET audioIndex == IF explicitIndex # NoIndex
                                       THEN explicitIndex
                                       ELSE FindIndex(playlistContext, audio)
                   IN [s1 EXCEPT !.originalPlaylist = playlistContext,
                                 !.playlist = playlistContext,
                                 !.currentIndex = IF audioIndex >= 0 THEN audioIndex ELSE 0]
              ELSE IF Len(e.playlist) > 0 /\ FindIndex(e.playlist, audio) >= 0
                     THEN [s1 EXCEPT !.currentIndex = FindIndex(e.playlist, audio)]
                     ELSE [s1 EXCEPT !.originalPlaylist = <<audio>>,
                                     !.playlist = <<audio>>,
                                     !.currentIndex = 0]
      IN [s2 EXCEPT !.backgroundTaskId = "stamp",
                    !.fetchTask = TRUE,
                    !.loads = Append(SupersedeLoads(s.loads),
                                     [audio |-> audio, env |-> e, stale |-> FALSE])]

\* playAudio after Audio.Sound.createAsync resolved with the sound h
playAudioLoaded(s, h) ==
  startPositionUpdates([s EXCEPT !.soundRef = h, !.bgSound = h,
                                 !.isPlaying = TRUE, !.bgIsPlaying = TRUE])

\* playAudio after Audio.Sound.createAsync rejected: the catch block
playAudioFailed(s) == [s EXCEPT !.isPlaying = FALSE, !.bgIsPlaying = FALSE]

\* stopAudio that also empties the playlist
stopAudioClearingPlaylist(s) ==
  stopPositionUpdates(
    [s EXCEPT !.sounds = Unload(s.sounds, s.soundRef),
              !.soundRef = Null,
              !.backgroundTaskId = "null",
              !.bgSound = Null,
              !.currentAudio = Null,
              !.bgCurrentAudio = Null,
              !.isPlaying = FALSE,
              !.bgIsPlaying = FALSE,
              !.position = 0,
              !.duration = 0,
              !.playlist = <<>>,
              !.currentIndex = 0])

\* stopAudio
stopAudio(s) ==
  stopPositionUpdates(
    [s EXCEPT !.sounds = Unload(s.sounds, s.soundRef),
              !.soundRef = Null,
              !.backgroundTaskId = "null",
              !.bgSound = Null,
              !.currentAudio = Null,
              !.bgCurrentAudio = Null,
              !.isPlaying = FALSE,
              !.bgIsPlaying = FALSE,
              !.position = 0,
              !.duration = 0])

\* stopAudio when unloadAsync rejects: the catch block.  The sound is left
\* loaded or not, as the player decides (stillLoaded).
stopAudioUnloadFailed(s, stillLoaded) ==
  [s EXCEPT !.sounds = IF stillLoaded THEN s.sounds ELSE Unload(s.sounds, s.soundRef),
            !.currentAudio = Null,
            !.bgCurrentAudio = Null,
            !.isPlaying = FALSE,
            !.bgIsPlaying = FALSE]

\* setPlaylist that forgets to keep the original order for the shuffle toggle
setPlaylistKeepsOldOriginal(s, newPlaylist, startIndex) ==
  [s EXCEPT !.playlist = newPlaylist,
            !.currentIndex = startIndex]

\* setPlaylist
setPlaylist(s, newPlaylist, startIndex) ==
  [s EXCEPT !.originalPlaylist = newPlaylist,
            !.playlist = newPlaylist,
            !.currentIndex = startIndex]

\* playPlaylist, run by a closure that reads the render values e
playPlaylist(s, newPlaylist, startIndex, e) ==
  LET s1 == [s EXCEPT !.playlist = newPlaylist, !.currentIndex = startIndex]
  IN IF Len(newPlaylist) > 0 /\ startIndex < Len(newPlaylist)
       THEN playAudio(s1, At(newPlaylist, startIndex), <<>>, NoIndex, e)
       ELSE s1

\* toggleRepeat
toggleRepeat(s) == [s EXCEPT !.isRepeating = ~s.isRepeating]

\* toggleShuffle with the random draws js of its Fisher-Yates loop
toggleShuffle(s, js) ==
  LET newShuffled == ~s.isShuffled
      s1 == [s EXCEPT !.isShuffled = newShuffled]
  IN IF newShuffled
       THEN LET currentTrack == At(s.originalPlaylist, s.currentIndex)
            IN IF currentTrack = Undef
                 THEN \* shuffled.map(a => a.title) throws on the undefined
                      \* entry before setPlaylistState is reached
                      s1
                 ELSE LET rest == RemoveAt(s.originalPlaylist, s.currentIndex)
                          shuffled == <<currentTrack>> \o FisherYates(rest, Len(rest) - 1, js)
                      IN [s1 EXCEPT !.playlist = shuffled, !.currentIndex = 0]
       ELSE LET currentTrackId == At(s.playlist, s.currentIndex)
                newIndex == FindIndex(s.originalPlaylist, currentTrackId)
            IN [s1 EXCEPT !.playlist = s.originalPlaylist,
                          !.currentIndex = IF newIndex >= 0 THEN newIndex ELSE 0]

\* playNext that loops to the first track at the end of the playlist
playNextWrapping(s, e) ==
  IF Len(e.playlist) = 0
    THEN stopAudio(s)
    ELSE LET nextIndex == (e.currentIndex + 1) % Len(e.playlist)
         IN playAudio(s, At(e.playlist, nextIndex), e.playlist, nextIndex, e)

\* playNext, run by a closure that reads the render values e
playNext(s, e) ==
  IF Len(e.playlist) = 0
    THEN stopAudio(s)
    ELSE LET nextIndex == e.currentIndex + 1
         IN IF nextIndex < Len(e.playlist)
              THEN IF At(e.playlist, nextIndex) = Undef
                     THEN s   \* playlist[nextIndex].title throws
                     ELSE playAudio(s, At(e.playlist, nextIndex), e.playlist, nextIndex, e)
              ELSE stopAudio(s)

\* playPrevious, run by a closure that reads the render values e
playPrevious(s, e) ==
  IF Len(e.playlist) = 0
    THEN s
    ELSE LET prevIndex == e.currentIndex - 1
         IN IF prevIndex >= 0
              THEN IF At(e.playlist, prevIndex) = Undef
                     THEN s   \* playlist[prevIndex].title throws
                     ELSE playAudio(s, At(e.playlist, prevIndex), e.playlist, prevIndex, e)
              ELSE s

\* pauseAudio: pauseAsync rejects on a sound that is not loaded
pauseAudio(s) ==
  IF s.soundRef # Null /\ s.sounds[s.soundRef].loaded
    THEN stopPositionUpdates(
           [s EXCEPT !.sounds[s.soundRef].playing = FALSE,
                     !.isPlaying = FALSE, !.bgIsPlaying = FALSE])
    ELSE s

\* resumeAudio that does not look at the sound before it reports playing
resumeAudioUnguarded(s) ==
  startPositionUpdates([s EXCEPT !.isPlaying = TRUE, !.bgIsPlaying = TRUE])

\* resumeAudio: playAsync rejects on a sound that is not loaded
resumeAudio(s) ==
  IF s.soundRef # Null /\ s.sounds[s.soundRef].loaded
    THEN startPositionUpdates(
           [s EXCEPT !.sounds[s.soundRef].playing = TRUE,
                     !.isPlaying = TRUE, !.bgIsPlaying = TRUE])
    ELSE s

\* seekTo: setPositionAsync rejects on a sound that is not loaded
seekTo(s, newPosition) ==
  IF s.soundRef # Null /\ s.sounds[s.soundRef].loaded
    THEN [s EXCEPT !.position = newPosition]
    ELSE s

\* handlePlayAudio of the playlist screen for the row audio of the listed
\* filteredAudios: its globalSetPlaylist and globalPlayAudio are the closures
\* of one render of the screen, so the playAudio call reads the render values
\* e of before the setPlaylist call
handlePlayAudio(s, audio, filteredAudios, e) ==
  IF e.currentAudio # Null /\ e.currentAudio = audio
    THEN IF s.isPlaying THEN pauseAudio(s) ELSE resumeAudio(s)
    ELSE playAudio(setPlaylist(s, filteredAudios, FindIndex(filteredAudios, audio)),
                   audio, <<>>, NoIndex, e)

\* onPlaybackStatusUpdate of the sound h for a status with isLoaded true
onPlaybackStatusUpdate(s, h, positionSec, buffering, didJustFinish) ==
  LET e == s.sounds[h].env
      s1 == [s EXCEPT !.position = positionSec,
                      !.duration = TrackDuration(s.sounds[h].track),
                      !.isPlaying = s.sounds[h].playing,
                      !.isBuffering = buffering]
  IN IF didJustFinish
       THEN IF e.isRepeating
              THEN IF e.currentAudio # Null
                     THEN playAudio(s1, e.currentAudio, <<>>, NoIndex, e)
                     ELSE s1
              ELSE playNext(s1, e)
       ELSE s1

\* ------------------------------------ BackgroundAudioManager (the guard)
Min(a, b) == IF a < b THEN a ELSE b

AppStates == {"active", "background", "inactive"}

\* the manager holds a loaded sound that is not playing while its hint says
\* playing: status.isLoaded && !status.isPlaying under this.sound && this.isPlaying
Stopped(s) ==
  /\ s.bgSound # Null
  /\ s.bgIsPlaying
  /\ s.sounds[s.bgSound].loaded
  /\ ~s.sounds[s.bgSound].playing

\* startContinuousBackgroundTask: clearInterval(backgroundTaskId) cancels an
\* interval only if the id is one (a Date.now() stamp is no timer id), then a
\* new interval is scheduled and its id stored
startContinuousBackgroundTask(s) ==
  [s EXCEPT !.healthChecks = (IF s.backgroundTaskId = "interval" THEN @ - 1 ELSE @) + 1,
            !.backgroundTaskId = "interval"]

\* maintainBackgroundPlayback: setIsMutedAsync throws on an unloaded sound and
\* the catch block ends the call; otherwise playAsync (and up to three more)
\* gets a stopped sound playing or not (resumes), and the interval is started
maintainBackgroundPlayback(s, resumes) ==
  IF s.bgSound # Null /\ s.bgIsPlaying
    THEN IF ~s.sounds[s.bgSound].loaded
           THEN s
           ELSE startContinuousBackgroundTask(
                  [s EXCEPT !.sounds[s.bgSound].playing = @ \/ resumes])
    ELSE s

\* resumeBackgroundPlayback: one playAsync if the sound is found stopped
resumeBackgroundPlayback(s, resumes) ==
  IF Stopped(s) THEN [s EXCEPT !.sounds[s.bgSound].playing = resumes] ELSE s

\* prepareForBackground: volume, mute and audio mode only
prepareForBackground(s) == s

\* handleAppStateChange
handleAppStateChange(s, nextAppState, resumes) ==
  IF ~SupportsBackgroundAudio THEN s
  ELSE IF nextAppState = "background" /\ s.bgIsPlaying
         THEN maintainBackgroundPlayback(s, resumes)
  ELSE IF nextAppState = "active" /\ s.bgIsPlaying
         THEN resumeBackgroundPlayback(s, resumes)
  ELSE IF nextAppState = "inactive" /\ s.bgIsPlaying
         THEN prepareForBackground(s)
  ELSE s

\* the attempt at which playAsync gets the sound playing again during one
\* health check: 1..ResumeAttempts in the check's own loop, the following
\* EmergencyAttempts in emergencyRestart, NeverResumes if none does
NeverResumes == ResumeAttempts + EmergencyAttempts + 1
\* the outcomes explored: the first attempt of the loop, the first attempt of
\* emergencyRestart, none
ResumeOutcomes == {1, ResumeAttempts + 1, NeverResumes}

\* emergencyRestart, the sound playing again at its attempt j (none if
\* j > EmergencyAttempts); playAsync throws on an unloaded sound
emergencyRestart(s, j) ==
  IF s.bgSound # Null /\ s.bgIsPlaying /\ s.sounds[s.bgSound].loaded
    THEN [s EXCEPT !.sounds[s.bgSound].playing = (j <= EmergencyAttempts)]
    ELSE s

\* the interval callback of startContinuousBackgroundTask, the sound playing
\* again at attempt k
continuousTask(s, k) ==
  IF Stopped(s)
    THEN IF k <= ResumeAttempts
           THEN [s EXCEPT !.sounds[s.bgSound].playing = TRUE]
           ELSE emergencyRestart(s, k - ResumeAttempts)
    ELSE s

\* cleanup of the manager
cleanup(s) ==
  [s EXCEPT !.healthChecks = IF s.backgroundTaskId = "interval" THEN @ - 1 ELSE @,
            !.backgroundTaskId = "null",
            !.sounds = Unload(s.sounds, s.bgSound),
            !.bgCurrentAudio = Null,
            !.bgSound = Null,
            !.bgIsPlaying = FALSE]

\* the unmount effect of the provider
unmount(s) ==
  cleanup(stopPositionUpdates([s EXCEPT !.sounds = Unload(s.sounds, s.soundRef)]))

\* ---------------------------------------------------------------- actions
\* a handler that may call playAudio needs room for one more pending load
Room == Len(loads) < MaxLoads

\* the UI calls playAudio(audio) or playAudio(audio, playlistContext); only
\* playNext and playPrevious pass an explicit index
PlayAudio ==
  /\ Room
  /\ \E audio \in Tracks, playlistContext \in Lists :
       Commit(playAudio(Cur, audio, playlistContext, NoIndex, CurEnv), "playAudio", Null, playlistContext, NoIndex)

\* Audio.Sound.createAsync of a pending playAudio call resolves
LoadDone ==
  \E k \in DOMAIN loads :
    LET free == {h \in SoundIds : Collect(sounds, {})[h] = NoSound}
        h == CHOOSE x \in free : \A y \in free : x <= y
        created == [track |-> loads[k].audio, loaded |-> TRUE, playing |-> TRUE,
                    env |-> loads[k].env, stale |-> loads[k].stale]
        s == [Cur EXCEPT !.sounds[h] = created,
                         !.loads = SubSeq(loads, 1, k - 1) \o SubSeq(loads, k + 1, Len(loads))]
    IN /\ free # {}
       /\ Commit(playAudioLoaded(s, h), "loadDone", h, <<>>, NoIndex)

\* Audio.Sound.createAsync of a pending playAudio call rejects
LoadFail ==
  \E k \in DOMAIN loads :
    LET s == [Cur EXCEPT !.loads = SubSeq(loads, 1, k - 1) \o SubSeq(loads, k + 1, Len(loads))]
    IN Commit(playAudioFailed(s), "loadFail", Null, <<>>, NoIndex)

\* a loaded sound reports its status
StatusUpdate ==
  \E h \in SoundIds, positionSec \in Positions, buffering \in BOOLEAN :
    /\ sounds[h].loaded
    /\ Commit(onPlaybackStatusUpdate(Cur, h, positionSec, buffering, FALSE), "status", h, <<>>, NoIndex)

\* a playing sound reaches its end and reports didJustFinish
Finish ==
  \E h \in SoundIds :
    /\ sounds[h].loaded /\ sounds[h].playing
    /\ Room
    /\ LET s == [Cur EXCEPT !.sounds[h].playing = FALSE]
       IN Commit(onPlaybackStatusUpdate(s, h, TrackDuration(sounds[h].track), FALSE, TRUE),
                 "finish", h, <<>>, NoIndex)

PlayPlaylist ==
  /\ Room
  /\ \E newPlaylist \in Lists : \E startIndex \in IndexArgs(newPlaylist) :
       Commit(playPlaylist(Cur, newPlaylist, startIndex, CurEnv), "playPlaylist", Null, newPlaylist, startIndex)

PauseAudio == Commit(pauseAudio(Cur), "pauseAudio", Null, <<>>, NoIndex)

ResumeAudio == Commit(resumeAudio(Cur), "resumeAudio", Null, <<>>, NoIndex)

StopAudio == Commit(stopAudio(Cur), "stopAudio", Null, <<>>, NoIndex)

\* stopAudio whose unloadAsync call rejects
StopAudioFail ==
  /\ soundRef # Null
  /\ \E stillLoaded \in BOOLEAN :
       Commit(stopAudioUnloadFailed(Cur, stillLoaded), "stopAudioFail", Null, <<>>, NoIndex)

SeekTo ==
  \E newPosition \in SeekArgs :
    Commit(seekTo(Cur, newPosition), "seekTo", Null, <<>>, newPosition)

\* the raw state setter the context exposes
SetCurrentAudio ==
  \E audio \in Tracks \cup {Null} :
    Commit([Cur EXCEPT !.currentAudio = audio], "setCurrentAudio", Null, <<>>, NoIndex)

SetPlaylist ==
  \E newPlaylist \in Lists : \E startIndex \in IndexArgs(newPlaylist) :
    Commit(setPlaylist(Cur, newPlaylist, startIndex), "setPlaylist", Null, newPlaylist, startIndex)

ToggleShuffle ==
  \E js \in RandomDraws(MaxLen - 1) :
    Commit(toggleShuffle(Cur, js), "toggleShuffle", Null, <<>>, NoIndex)

ToggleRepeat == Commit(toggleRepeat(Cur), "toggleRepeat", Null, <<>>, NoIndex)

\* the user taps a row of the playlist screen
HandlePlayAudio ==
  /\ Room
  /\ \E filteredAudios \in Lists : \E k \in DOMAIN filteredAudios :
       Commit(handlePlayAudio(Cur, filteredAudios[k], filteredAudios, CurEnv),
              "handlePlayAudio", Null, filteredAudios, k - 1)

PlayNext == Room /\ Commit(playNext(Cur, CurEnv), "playNext", Null, <<>>, NoIndex)

PlayPrevious == Room /\ Commit(playPrevious(Cur, CurEnv), "playPrevious", Null, <<>>, NoIndex)

Next ==
  \/ PlayAudio
  \/ LoadDone
  \/ LoadFail
  \/ StatusUpdate
  \/ Finish
  \/ PlayPlaylist
  \/ HandlePlayAudio
  \/ PauseAudio
  \/ ResumeAudio
  \/ StopAudio
  \/ StopAudioFail
  \/ SeekTo
  \/ SetCurrentAudio
  \/ SetPlaylist
  \/ ToggleShuffle
  \/ ToggleRepeat
  \/ PlayNext
  \/ PlayPrevious

Spec == Init /\ [][Next]_vars

\* repeat mode explored one handler run deeper, over the calls that matter
\* to it
InitRepeat ==
  /\ environment = Standalone
  /\ Constructed
  /\ budget = RepeatSteps
  /\ tracker = [kind |-> "poller", audio |-> Null]

RepeatNext ==
  \/ ToggleRepeat
  \/ PlayAudio
  \/ LoadDone
  \/ Finish

SpecRepeat == InitRepeat /\ [][RepeatNext]_vars

\* ------------------------------------------------------ position store
\* Positions are seconds with a millisecond part; the model keeps them as a
\* whole number of ms.  Strings are sequences of characters.
PollMillis == 1000
SaveEveryMillis == 5000
SaveWindowMillis == 100

DigitChars == <<"0", "1", "2", "3", "4", "5", "6", "7", "8", "9">>

DigitOf(c) == CHOOSE d \in 0..9 : DigitChars[d + 1] = c

RECURSIVE Digits(_)
Digits(n) ==
  IF n < 10 THEN <<DigitChars[n + 1]>>
  ELSE Append(Digits(n \div 10), DigitChars[(n % 10) + 1])

RECURSIVE IntValue(_)
IntValue(ds) ==
  IF ds = <<>> THEN 0
  ELSE IntValue(SubSeq(ds, 1, Len(ds) - 1)) * 10 + DigitOf(ds[Len(ds)])

\* Number.prototype.toString of ms / 1000: the integer part, and the decimals
\* without trailing zeros when there are any
toString(ms) ==
  LET f == ms % 1000
      full == <<DigitChars[(f \div 100) + 1], DigitChars[((f \div 10) % 10) + 1],
                DigitChars[(f % 10) + 1]>>
      decimals == IF f % 10 # 0 THEN full
                  ELSE IF f % 100 # 0 THEN SubSeq(full, 1, 2)
                  ELSE SubSeq(full, 1, 1)
  IN Digits(ms \div 1000) \o (IF f = 0 THEN <<>> ELSE <<".">> \o decimals)

\* the digits str starts with at position i
RECURSIVE DigitRun(_, _)
DigitRun(str, i) ==
  IF i > Len(str) \/ str[i] = "." THEN <<>>
  ELSE <<str[i]>> \o DigitRun(str, i + 1)

\* parseInt of a string of digits and at most one point: the integer part
parseInt(str) == IntValue(DigitRun(str, 1)) * 1000

\* parseFloat of a string of digits and at most one point, in ms
parseFloat(str) ==
  LET int == DigitRun(str, 1)
      dec == DigitRun(str, Len(int) + 2)
      d3 == SubSeq(dec \o <<"0", "0", "0">>, 1, 3)
  IN IntValue(int) * 1000 + IntValue(d3)

\* `${STORAGE_KEYS.PLAYER_POSITION}_${audioId}`
PositionKey(audioId) == <<"player_position", "_", audioId>>

\* AsyncStorage.getItem and setItem
getItem(st, key) == IF key \in DOMAIN st THEN st[key] ELSE <<>>

setItem(st, key, value) ==
  [k \in DOMAIN st \cup {key} |-> IF k = key THEN value ELSE st[k]]

savePlayerPosition(st, audioId, ms) == setItem(st, PositionKey(audioId), toString(ms))

getPlayerPositionTruncating(st, audioId) ==
  LET pos == getItem(st, PositionKey(audioId))
  IN IF pos # <<>> THEN parseInt(pos) ELSE 0

\* a key that is not stored reads as null, and null and "" both give 0
getPlayerPosition(st, audioId) ==
  LET pos == getItem(st, PositionKey(audioId))
  IN IF pos # <<>> THEN parseFloat(pos) ELSE 0

\* the values of STORAGE_KEYS, as keys
StorageKeys ==
  {<<"downloaded_audios">>, <<"folders">>, <<"player_position">>, <<"settings">>}

\* AsyncStorage.multiRemove
multiRemove(st, keys) == [k \in DOMAIN st \ keys |-> st[k]]

clearAllData(st) == multiRemove(st, StorageKeys)

\* the positions callers save, in ms
SaveMillis == {0, 50, 1500, 5050, SimMillis}

sessionVars ==
  <<currentAudio, isPlaying, position, duration, isBuffering, playlist,
    currentIndex, isShuffled, isRepeating, originalPlaylist, soundRef,
    positionUpdateInterval, bgCurrentAudio, bgSound, bgIsPlaying,
    backgroundTaskId, sounds, loads, steps, budget, pristine, mounted,
    appState, subscribed, healthChecks, stuckTicks, emergencyRestarts,
    tickPlays, tickPhase, environment, fetchTask, pausing, inFlight>>

StoreOp(op, audioId, ms) == [name |-> op, sound |-> Null, list |-> <<audioId>>, index |-> ms]

SavePlayerPosition ==
  \E audioId \in Tracks, ms \in SaveMillis :
    /\ storage' = savePlayerPosition(storage, audioId, ms)
    /\ lastOp' = StoreOp("savePlayerPosition", audioId, ms)
    /\ UNCHANGED <<sessionVars, download, loadedPosition, tracker, playedMillis, writes>>

\* setItem rejects: the catch block logs and the call resolves
SavePlayerPositionFails ==
  \E audioId \in Tracks, ms \in SaveMillis :
    /\ lastOp' = StoreOp("savePlayerPositionFailed", audioId, ms)
    /\ UNCHANGED <<sessionVars, download, storage, loadedPosition, tracker, playedMillis, writes>>

GetPlayerPosition ==
  \E audioId \in Tracks :
    /\ loadedPosition' = getPlayerPosition(storage, audioId)
    /\ lastOp' = StoreOp("getPlayerPosition", audioId, NoIndex)
    /\ UNCHANGED <<sessionVars, download, storage, tracker, playedMillis, writes>>

\* getItem rejects: the catch block returns 0
GetPlayerPositionFails ==
  \E audioId \in Tracks :
    /\ loadedPosition' = 0
    /\ lastOp' = StoreOp("getPlayerPositionFailed", audioId, NoIndex)
    /\ UNCHANGED <<sessionVars, download, storage, tracker, playedMillis, writes>>

ClearAllData ==
  /\ storage' = clearAllData(storage)
  /\ lastOp' = StoreOp("clearAllData", Null, NoIndex)
  /\ UNCHANGED <<sessionVars, download, loadedPosition, tracker, playedMillis, writes>>

\* multiRemove rejects: the catch block logs and rethrows
ClearAllDataFails ==
  /\ lastOp' = StoreOp("clearAllDataFailed", Null, NoIndex)
  /\ UNCHANGED <<sessionVars, download, storage, loadedPosition, tracker, playedMillis, writes>>

StoreNext ==
  \/ ClearAllData
  \/ ClearAllDataFails
  \/ SavePlayerPosition
  \/ SavePlayerPositionFails
  \/ GetPlayerPosition
  \/ GetPlayerPositionFails

SpecStore == Init /\ [][StoreNext]_vars

\* ---------------------------------------------------- position tracking
\* how far behind the start of its interval a status update reports
Lateness == {0, 50, 150}

\* the interval callback of startPositionUpdates while the track plays: it
\* reads the status and publishes the position
PollTick ==
  /\ tracker.kind = "poller"
  /\ playedMillis < SimMillis
  /\ playedMillis' = playedMillis + PollMillis
  /\ lastOp' = StoreOp("pollTick", tracker.audio, playedMillis')
  /\ UNCHANGED <<sessionVars, download, storage, loadedPosition, tracker, writes>>

\* onPlaybackStatusUpdate of the player screen that owns its sound, while the
\* track plays: it saves the position when positionMillis % 5000 < 100
ScreenStatusUpdate ==
  /\ tracker.kind = "status"
  /\ playedMillis < SimMillis
  /\ \E late \in Lateness :
       LET positionMillis == playedMillis + late
           saves == positionMillis % SaveEveryMillis < SaveWindowMillis
       IN /\ storage' = IF saves
                          THEN savePlayerPosition(storage, tracker.audio, positionMillis)
                          ELSE storage
          /\ writes' = IF saves THEN writes + 1 ELSE writes
          /\ lastOp' = StoreOp("screenStatus", tracker.audio, positionMillis)
  /\ playedMillis' = playedMillis + StatusMillis
  /\ UNCHANGED <<sessionVars, download, loadedPosition, tracker>>

InitTracker ==
  /\ environment = Standalone
  /\ Constructed
  /\ budget = MaxSteps
  /\ tracker \in [kind : {"poller", "status"}, audio : Tracks]

TrackerNext ==
  \/ PollTick
  \/ ScreenStatusUpdate

SpecTracker == InitTracker /\ [][TrackerNext]_vars

\* ------------------------------------------- downloadMultipleParallel
\* The metadata list is 1..list; a download is in activePromises from the
\* iteration that starts it until the finally callback of its promise runs.

\* one pass of the for loop that would start a download at an extra one over
\* the limit
loopIterationOverLimit(d) ==
  IF d.next > d.list
    THEN [d EXCEPT !.pc = "all"]
  ELSE IF d.pc = "loop" /\ Cardinality(d.activePromises) > d.maxConcurrency
    THEN [d EXCEPT !.pc = "race"]
  ELSE [d EXCEPT !.pc = "loop",
                 !.activePromises = @ \cup {d.next},
                 !.running = @ \cup {d.next},
                 !.next = @ + 1]

\* one pass of the for loop, from its test to the next await or to the next
\* pass: await Promise.race while the limit is reached, else start the next
\* download; after the last one, await Promise.all
loopIteration(d) ==
  IF d.next > d.list
    THEN [d EXCEPT !.pc = "all"]
  ELSE IF d.pc = "loop" /\ Cardinality(d.activePromises) >= d.maxConcurrency
    THEN [d EXCEPT !.pc = "race"]
  ELSE [d EXCEPT !.pc = "loop",
                 !.activePromises = @ \cup {d.next},
                 !.running = @ \cup {d.next},
                 !.next = @ + 1]

\* downloadAudio of the download i settles: it resolves with the audio after
\* onComplete pushed it to results, or with null after onError
downloadSettles(d, i, ok) ==
  [d EXCEPT !.running = @ \ {i},
            !.results = IF ok THEN Append(@, i) ELSE @]

\* the finally callback of the download i, after which its promise settles;
\* a pending Promise.race resolves with it
finallyCallback(d, i) ==
  [d EXCEPT !.activePromises = @ \ {i},
            !.pc = IF @ = "race" THEN "resumed" ELSE @]

DownloadOp(op, i) == [name |-> op, sound |-> Null, list |-> <<>>, index |-> i]

DownloadMultipleParallel ==
  /\ download.pc = "none"
  /\ \E n \in 0..MaxDownloads, maxConcurrency \in 0..MaxConcurrency :
       download' = loopIteration([NoDownload EXCEPT !.list = n,
                                                    !.maxConcurrency = maxConcurrency,
                                                    !.pc = "loop"])
  /\ lastOp' = DownloadOp("downloadMultipleParallel", NoIndex)
  /\ UNCHANGED <<sessionVars, storage, loadedPosition, tracker, playedMillis, writes>>

\* the loop goes on: after a started download, or when Promise.race resolved
LoopIteration ==
  /\ download.pc \in {"loop", "resumed"}
  /\ download' = loopIteration(download)
  /\ lastOp' = DownloadOp("loopIteration", download.next)
  /\ UNCHANGED <<sessionVars, storage, loadedPosition, tracker, playedMillis, writes>>

DownloadSettles ==
  /\ \E i \in download.running, ok \in BOOLEAN :
       /\ download' = downloadSettles(download, i, ok)
       /\ lastOp' = DownloadOp("downloadSettles", i)
  /\ UNCHANGED <<sessionVars, storage, loadedPosition, tracker, playedMillis, writes>>

FinallyCallback ==
  /\ \E i \in download.activePromises \ download.running :
       /\ download' = finallyCallback(download, i)
       /\ lastOp' = DownloadOp("finally", i)
  /\ UNCHANGED <<sessionVars, storage, loadedPosition, tracker, playedMillis, writes>>

\* Promise.all of the promises left in activePromises resolved
DownloadReturns ==
  /\ download.pc = "all"
  /\ download.activePromises = {}
  /\ download' = [download EXCEPT !.pc = "returned"]
  /\ lastOp' = DownloadOp("downloadReturns", NoIndex)
  /\ UNCHANGED <<sessionVars, storage, loadedPosition, tracker, playedMillis, writes>>

DownloadNext ==
  \/ DownloadMultipleParallel
  \/ LoopIteration
  \/ DownloadSettles
  \/ FinallyCallback
  \/ DownloadReturns

SpecDownload == Init /\ [][DownloadNext]_vars

\* ------------------------------------------------ actions of the guard
\* the UI calls playAudio(audio) without a playlist context
PlayTrack ==
  /\ Room
  /\ \E audio \in Tracks :
       Commit(playAudio(Cur, audio, <<>>, NoIndex, CurEnv), "playAudio", Null, <<>>, NoIndex)

\* the OS reports a new application state to the manager's listener
AppStateChange ==
  \E nextAppState \in AppStates \ {appState}, resumes \in BOOLEAN :
    LET s == IF subscribed THEN handleAppStateChange(Cur, nextAppState, resumes) ELSE Cur
    IN /\ s.healthChecks <= MaxTimers
       /\ Install(s, "appState", Null, <<>>, NoIndex)
       /\ appState' = nextAppState
       /\ UNCHANGED <<steps, mounted, subscribed, stuckTicks, emergencyRestarts, tickPlays, tickPhase>>

\* the OS stops a playing sound (loss of the audio focus, suspension)
Interrupt ==
  \E h \in SoundIds :
    /\ sounds[h].loaded /\ sounds[h].playing
    /\ Install([Cur EXCEPT !.sounds[h].playing = FALSE], "interrupt", h, <<>>, NoIndex)
    /\ stuckTicks' = 0
    /\ emergencyRestarts' = 0
    /\ UNCHANGED <<steps, mounted, appState, subscribed, tickPlays, tickPhase>>

\* one of the scheduled intervals of startContinuousBackgroundTask fires
HealthCheckTick ==
  /\ healthChecks > 0
  /\ \E k \in ResumeOutcomes :
       LET stuck == Stopped(Cur) /\ k = NeverResumes
       IN /\ Install(continuousTask(Cur, k), "healthCheck", bgSound, <<>>, NoIndex)
          /\ tickPlays' = IF Stopped(Cur) THEN Min(k, ResumeAttempts + EmergencyAttempts) ELSE 0
          /\ stuckTicks' = IF stuck THEN Min(stuckTicks + 1, MaxTicks) ELSE 0
          /\ emergencyRestarts' =
               IF stuck
                 THEN Min(emergencyRestarts + (IF k > ResumeAttempts THEN 1 ELSE 0), MaxTicks)
                 ELSE 0
          /\ tickPhase' = ~tickPhase
          /\ UNCHANGED <<steps, mounted, appState, subscribed>>

\* the provider unmounts: its effect cleanup runs and disposes of the manager
Cleanup ==
  /\ mounted
  /\ Install(unmount(Cur), "cleanup", Null, <<>>, NoIndex)
  /\ mounted' = FALSE
  /\ subscribed' = FALSE
  /\ UNCHANGED <<steps, appState, stuckTicks, emergencyRestarts, tickPlays, tickPhase>>

GuardNext ==
  \/ PlayTrack
  \/ LoadDone
  \/ PauseAudio
  \/ ResumeAudio
  \/ StopAudio
  \/ AppStateChange
  \/ Interrupt
  \/ HealthCheckTick
  \/ Cleanup

\* the playback session together with the application lifecycle and the guard
SpecGuard == Init /\ [][GuardNext]_vars

\* the scheduled interval keeps firing every second
\* the guard under every build the application runs as
InitEnv ==
  /\ environment \in Environments
  /\ Constructed
  /\ budget = MaxSteps
  /\ tracker = [kind |-> "poller", audio |-> Null]

SpecEnv == InitEnv /\ [][GuardNext]_vars

\* ------------------------------------- handlers interleaved at their awaits
AttemptWaitMillis == 200
HealthCheckMillis == 1000

\* pauseAudio up to its await: pauseAsync is on its way to the player, which
\* runs the commands it receives in the order of their calls
pauseAudioCall(s) ==
  [s EXCEPT !.sounds[s.soundRef].playing = FALSE, !.pausing = TRUE]

\* pauseAudio after pauseAsync resolved
pauseAudioReturn(s) ==
  stopPositionUpdates([s EXCEPT !.isPlaying = FALSE, !.bgIsPlaying = FALSE,
                                !.pausing = FALSE])

\* the time a health check spends in its loop when playAsync succeeds at
\* attempt k: 200 ms after each attempt it makes
RecoveryMillis(k) == Min(k, ResumeAttempts) * AttemptWaitMillis

\* the end of the recovery sequence of a health check: the attempts of its own
\* loop call playAsync on the manager's sound without reading the hint again,
\* emergencyRestart reads it once more
continuousTaskEnd(s, k) ==
  LET rest == SubSeq(s.inFlight, 2, Len(s.inFlight))
      s1 == [s EXCEPT !.inFlight = rest]
  IN IF s.bgSound = Null \/ ~s.sounds[s.bgSound].loaded
       THEN s1
       ELSE IF k <= ResumeAttempts
              THEN [s1 EXCEPT !.sounds[s.bgSound].playing = TRUE]
              ELSE emergencyRestart(s1, k - ResumeAttempts)

PauseCall ==
  /\ mounted
  /\ ~pausing
  /\ soundRef # Null
  /\ sounds[soundRef].loaded
  /\ Install(pauseAudioCall(Cur), "pauseCall", soundRef, <<>>, NoIndex)
  /\ UNCHANGED <<steps, mounted, appState, subscribed, stuckTicks, emergencyRestarts,
                 tickPlays, tickPhase>>

PauseReturn ==
  /\ pausing
  /\ Install(pauseAudioReturn(Cur), "pauseAudio", soundRef, <<>>, NoIndex)
  /\ UNCHANGED <<steps, mounted, appState, subscribed, stuckTicks, emergencyRestarts,
                 tickPlays, tickPhase>>

\* an interval of startContinuousBackgroundTask fires, finds the sound stopped
\* under a true hint and enters its recovery sequence; an earlier health check
\* can still be inside its own only if that one lasts a whole interval
TickStart ==
  /\ healthChecks > 0
  /\ Stopped(Cur)
  /\ Len(inFlight) < MaxInFlight
  /\ \A i \in DOMAIN inFlight : RecoveryMillis(inFlight[i]) >= HealthCheckMillis
  /\ \E k \in ResumeOutcomes :
       Install([Cur EXCEPT !.inFlight = Append(inFlight, k)], "tickStart", bgSound, <<>>, NoIndex)
  /\ UNCHANGED <<steps, mounted, appState, subscribed, stuckTicks, emergencyRestarts,
                 tickPlays, tickPhase>>

TickEnd ==
  /\ inFlight # <<>>
  /\ Install(continuousTaskEnd(Cur, Head(inFlight)), "tickEnd", bgSound, <<>>, NoIndex)
  /\ UNCHANGED <<steps, mounted, appState, subscribed, stuckTicks, emergencyRestarts,
                 tickPlays, tickPhase>>

\* the user's commands come one after the other; only the timers interleave
\* with a pauseAudio call in flight
TicksNext ==
  \/ (~pausing /\ PlayTrack)
  \/ LoadDone
  \/ (~pausing /\ ResumeAudio)
  \/ AppStateChange
  \/ Interrupt
  \/ PauseCall
  \/ PauseReturn
  \/ TickStart
  \/ TickEnd

SpecTicks == Init /\ [][TicksNext]_vars

SpecGuardLive == SpecGuard /\ WF_vars(HealthCheckTick)

TypeOK ==
  /\ currentAudio \in Tracks \cup {Null}
  /\ playlist \in Seq(Tracks)
  /\ originalPlaylist \in Seq(Tracks)
  /\ currentIndex \in (0 - 1)..MaxLen
  /\ soundRef \in SoundIds \cup {Null}

\* ----------------------------------------------------------------- claims
LoadedSounds == {h \in SoundIds : sounds[h].loaded}

\* the session is Idle: nothing loaded, no current track, position and duration 0
Idle ==
  /\ soundRef = Null
  /\ LoadedSounds = {}
  /\ currentAudio = Null
  /\ ~isPlaying
  /\ position = 0
  /\ duration = 0

C2_FinishAdvancesOrIdles ==
  [][(/\ lastOp'.name = "finish"
      /\ lastOp'.sound = soundRef
      /\ ~isRepeating
      /\ ~isShuffled
      /\ loads = <<>>
      /\ LoadedSounds = {soundRef}
      /\ currentAudio # Null
      /\ sounds[soundRef].track = currentAudio
      /\ At(playlist, currentIndex) = currentAudio)
     => IF currentIndex + 1 < Len(playlist)
          THEN /\ currentIndex' = currentIndex + 1
               /\ playlist' = playlist
               /\ currentAudio' = At(playlist, currentIndex + 1)
               /\ Len(loads') = 1
               /\ loads'[1].audio = At(playlist, currentIndex + 1)
          ELSE Idle']_vars

\* C3: if repeat is enabled when the session's sound reports 'finished', the
\* same track is played again (a load of it is started) and current track,
\* playlist and currentIndex are unchanged.
C3_RepeatReplaysSameTrack ==
  [][(/\ lastOp'.name = "finish"
      /\ lastOp'.sound = soundRef
      /\ isRepeating
      /\ loads = <<>>
      /\ LoadedSounds = {soundRef}
      /\ currentAudio # Null
      /\ sounds[soundRef].track = currentAudio
      /\ At(playlist, currentIndex) = currentAudio)
     => (/\ currentAudio' = currentAudio
         /\ playlist' = playlist
         /\ currentIndex' = currentIndex
         /\ Len(loads') = 1
         /\ loads'[1].audio = currentAudio)]_vars

\* C4: a status callback of a sound whose playAudio call has been superseded
\* by a later playAudio call changes none of position, duration, isPlaying,
\* isBuffering and triggers no finish handling (no load, no stop, no change of
\* current track or index).
C4_StaleStatusIgnored ==
  [][(/\ lastOp'.name \in {"status", "finish"}
      /\ sounds[lastOp'.sound].stale)
     => UNCHANGED <<position, duration, isPlaying, isBuffering, currentAudio,
                    playlist, currentIndex, loads, soundRef>>]_vars

\* C5: at most one loaded sound exists in every reachable state.
C5_AtMostOneLoadedSound == Cardinality(LoadedSounds) <= 1

\* C6: from every state with shuffle off and currentIndex inside the playlist,
\* calling toggleShuffle twice (enable, then disable) restores the playlist to
\* the sequence it had before the first toggle.
C6_ShuffleRoundTrip ==
  (~isShuffled /\ 0 <= currentIndex /\ currentIndex < Len(playlist)) =>
    \A js1, js2 \in RandomDraws(MaxLen - 1) :
      toggleShuffle(toggleShuffle(Cur, js1), js2).playlist = playlist

\* C7: each toggleShuffle call keeps the id of the track at currentIndex.
C7_TogglePreservesCurrentTrack ==
  [][(/\ lastOp'.name = "toggleShuffle"
      /\ At(playlist, currentIndex) # Undef)
     => At(playlist', currentIndex') = At(playlist, currentIndex)]_vars

\* C8: whenever a current track is set and the playlist is non-empty, the
\* track at currentIndex is the current track.
C8_IndexPointsAtCurrentAudio ==
  (currentAudio # Null /\ Len(playlist) > 0) => At(playlist, currentIndex) = currentAudio

\* C9: with a non-empty playlist, 0 <= currentIndex < playlist.length.
C9_IndexInRange ==
  Len(playlist) > 0 => (0 <= currentIndex /\ currentIndex < Len(playlist))

\* C10: setPlaylist(tracks, startIndex) with a non-empty list and a valid
\* index results in playlist = originalPlaylist = tracks, currentIndex =
\* startIndex, the track at currentIndex being tracks[startIndex], and it
\* starts no playback (no load, no sound, no change of the playing state).
C10_SetPlaylistInstalls ==
  [][(/\ lastOp'.name = "setPlaylist"
      /\ Len(lastOp'.list) > 0
      /\ 0 <= lastOp'.index
      /\ lastOp'.index < Len(lastOp'.list))
     => (/\ playlist' = lastOp'.list
         /\ originalPlaylist' = lastOp'.list
         /\ currentIndex' = lastOp'.index
         /\ At(playlist', currentIndex') = lastOp'.list[lastOp'.index + 1]
         /\ UNCHANGED <<loads, sounds, soundRef, isPlaying, currentAudio,
                        bgSound, bgIsPlaying, positionUpdateInterval>>)]_vars

\* C10 witness: setPlaylist has installed a list of two tracks at a valid
\* index other than the default, over a different previous order
C10_Witness ==
  /\ lastOp.name = "setPlaylist"
  /\ Len(lastOp.list) = 2
  /\ lastOp.index = 1
  /\ playlist = lastOp.list
  /\ currentIndex = 1
  /\ currentAudio # Null

\* C11: playNext and playPrevious never change the playlist contents: when a
\* call of either (from the UI or from a 'finished' status) starts the load of
\* a track, the playlist is the sequence it was before the call and
\* currentIndex has moved by exactly one (up for playNext, down for
\* playPrevious).
C11_NavigationKeepsPlaylist ==
  [][/\ (/\ \/ lastOp'.name = "playNext"
             \/ (lastOp'.name = "finish" /\ ~sounds[lastOp'.sound].env.isRepeating)
         /\ Len(loads') = Len(loads) + 1)
        => (/\ playlist' = playlist
            /\ currentIndex' = currentIndex + 1)
     /\ (/\ lastOp'.name = "playPrevious"
         /\ Len(loads') = Len(loads) + 1)
        => (/\ playlist' = playlist
            /\ currentIndex' = currentIndex - 1)]_vars

\* C12: after setPlaylist(L) with a non-empty L, followed only by shuffle
\* toggles, playNext and playPrevious calls (and the loads they start), the
\* toggleShuffle call that disables shuffle restores the playlist order L.
C12_PristineOrderSurvivesNavigation ==
  [][(/\ lastOp'.name = "toggleShuffle"
      /\ isShuffled
      /\ pristine # <<>>)
     => playlist' = pristine]_vars

\* C13: after stopAudio completes, whether or not unloading the sound failed,
\* the session is Idle: no sound referenced or loaded, no current track, not
\* playing, position 0 and duration 0.
C13_StopReachesIdle ==
  [][lastOp'.name \in {"stopAudio", "stopAudioFail"} => Idle']_vars

\* C14: stopAudio, on its normal path and on its unload-failure path, leaves
\* playlist, originalPlaylist, currentIndex, isShuffled and isRepeating as
\* they were.
C14_StopKeepsPlaylistState ==
  [][lastOp'.name \in {"stopAudio", "stopAudioFail"}
     => UNCHANGED <<playlist, originalPlaylist, currentIndex, isShuffled, isRepeating>>]_vars

\* C14 witness: stopAudio has ended a session (no current track, no sound)
\* and a playlist of two tracks is still installed at its second index
C14_Witness ==
  /\ lastOp.name = "stopAudio"
  /\ currentAudio = Null
  /\ soundRef = Null
  /\ Len(playlist) = 2
  /\ currentIndex = 1
  /\ loads = <<>>
  /\ steps >= 3

\* C15: when the load of a playAudio call fails (and no other load is
\* pending), the session is left Idle: not playing, no current track, and
\* soundRef does not refer to an unloaded sound.
C15_FailedLoadLeavesIdle ==
  [][(lastOp'.name = "loadFail" /\ Len(loads) = 1)
     => (/\ ~isPlaying'
         /\ currentAudio' = Null
         /\ (soundRef' = Null \/ sounds'[soundRef'].loaded))]_vars

\* C16: when no sound is loaded (soundRef is null or refers to an unloaded
\* sound), pauseAudio and resumeAudio change nothing: no sound changes state,
\* the position timer is neither started nor stopped, and isPlaying, the
\* manager's playing hint, current track, position and playlist keep their
\* values.
C16_NoHandleNoOp ==
  [][(/\ lastOp'.name \in {"pauseAudio", "resumeAudio"}
      /\ (soundRef = Null \/ ~sounds[soundRef].loaded))
     => UNCHANGED <<sounds, loads, soundRef, positionUpdateInterval, isPlaying,
                    bgIsPlaying, bgSound, currentAudio, position, duration,
                    playlist, originalPlaylist, currentIndex>>]_vars

\* C16 witness: resumeAudio has run while soundRef referred to a sound that
\* the next playAudio call had already unloaded, its own load still pending
C16_Witness ==
  /\ lastOp.name = "resumeAudio"
  /\ soundRef # Null
  /\ ~sounds[soundRef].loaded
  /\ loads # <<>>

\* C17: after seekTo the published position lies in [0, duration], and
\* seekTo leaves the playing state of the session and of its sound unchanged.
C17_SeekClamps ==
  [][lastOp'.name = "seekTo"
     => (/\ 0 <= position'
         /\ position' <= duration'
         /\ isPlaying' = isPlaying
         /\ sounds' = sounds)]_vars

\* C18: after pauseAudio, stopAudio or the cleanup of the guard completes, no
\* health-check interval remains scheduled.
C18_TeardownCancelsHealthCheck ==
  [][lastOp'.name \in {"pauseAudio", "stopAudio", "cleanup"} => healthChecks' = 0]_vars

\* C19: when 6 consecutive health checks have found the sound stopped under a
\* true playing hint and left it stopped, emergencyRestart has been called
\* exactly once over those checks.
C19_EmergencyRestartOnce ==
  stuckTicks >= 6 => emergencyRestarts = 1

\* the sound never resumes while the application is in the background, the
\* hint says playing and a health check is scheduled
Stuck == appState = "background" /\ healthChecks > 0 /\ Stopped(Cur)

\* C20: if the sound stays stopped for ever while the application is in the
\* background and the hint says playing, then from some point on the health
\* checks of the guard issue no playAsync command any more.
C20_RecoveryGivesUp ==
  <>[]Stuck => <>[](tickPlays = 0)

\* C21: when a health check has exhausted its bounds (all resume attempts and
\* all attempts of emergencyRestart made, the sound still stopped), the
\* session is paused: the playing hint and isPlaying are false.
C21_ExhaustedRecoveryPauses ==
  [][(/\ lastOp'.name = "healthCheck"
      /\ Stopped(Cur)
      /\ tickPlays' = ResumeAttempts + EmergencyAttempts
      /\ ~sounds'[bgSound'].playing)
     => (~bgIsPlaying' /\ ~isPlaying')]_vars

\* C22: after a transition to active taken with the playing hint true, no
\* health-check interval is scheduled.
C22_ForegroundStopsHealthCheck ==
  [][(/\ lastOp'.name = "appState"
      /\ appState' = "active"
      /\ subscribed
      /\ bgIsPlaying)
     => healthChecks' = 0]_vars

\* C24: after pauseAudio, stopAudio (on its normal and on its unload-failure
\* path) or a failed load of playAudio completes, no position-polling interval
\* is scheduled.
C24_NoOrphanedPositionTimer ==
  [][lastOp'.name \in {"pauseAudio", "stopAudio", "stopAudioFail", "loadFail"}
     => ~positionUpdateInterval']_vars

\* C25: playAudio(track) called without a playlist context (by the UI, or by
\* the status callback to repeat the track) keeps the existing playlist and
\* sets currentIndex to the track's index when the track is a member of it,
\* and otherwise installs [track] as playlist and originalPlaylist with
\* currentIndex 0.
C25_PlayWithoutContext ==
  [][(/\ \/ (lastOp'.name = "playAudio" /\ lastOp'.list = <<>>)
         \/ (/\ lastOp'.name = "finish"
             /\ sounds[lastOp'.sound].env.isRepeating
             /\ sounds[lastOp'.sound].env.currentAudio # Null)
      /\ Len(loads') = Len(loads) + 1)
     => IF FindIndex(playlist, currentAudio') >= 0
          THEN /\ playlist' = playlist
               /\ currentIndex' = FindIndex(playlist, currentAudio')
          ELSE /\ playlist' = <<currentAudio'>>
               /\ originalPlaylist' = <<currentAudio'>>
               /\ currentIndex' = 0]_vars

\* C27: the guard issues no command to a sound: a lifecycle transition and a
\* health check leave every sound as it was, and a health check makes no
\* playAsync call.
C27_GuardNeverCommandsSound ==
  [][/\ lastOp'.name = "appState" => sounds' = sounds
     /\ lastOp'.name = "healthCheck" => (sounds' = sounds /\ tickPlays' = 0)]_vars

\* C30: a lifecycle transition taken while the playing hint is false changes
\* no sound and schedules no health check; a transition to background taken
\* with the hint true and a sound set leaves that sound playing (if it is
\* loaded) and a health-check interval scheduled under backgroundTaskId.
C30_GuardActsOnHint ==
  [][/\ (lastOp'.name = "appState" /\ subscribed /\ ~bgIsPlaying)
        => UNCHANGED <<sounds, healthChecks, backgroundTaskId>>
     /\ (/\ lastOp'.name = "appState"
         /\ appState' = "background"
         /\ subscribed
         /\ bgIsPlaying
         /\ bgSound # Null)
        => (/\ healthChecks' > 0
            /\ backgroundTaskId' = "interval")]_vars

\* C26: playPlaylist(L, i), and the playlist screen's setPlaylist(L, i)
\* followed by playAudio(L[i]) for a track that is not the current one, with
\* a non-empty L and a valid i, end with playlist = originalPlaylist = L,
\* currentIndex = i and current track L[i].
C26_InstallThenPlay ==
  [][(/\ lastOp'.name \in {"playPlaylist", "handlePlayAudio"}
      /\ Len(lastOp'.list) > 0
      /\ 0 <= lastOp'.index
      /\ lastOp'.index < Len(lastOp'.list)
      /\ currentAudio # lastOp'.list[lastOp'.index + 1])
     => (/\ playlist' = lastOp'.list
         /\ originalPlaylist' = lastOp'.list
         /\ currentIndex' = lastOp'.index
         /\ currentAudio' = lastOp'.list[lastOp'.index + 1])]_vars

\* C29: within one stall the guard makes at most 5 in-place playAsync
\* attempts before the emergency restart: a health check that finds the sound
\* still stopped after an earlier check of the same stall has used up its 5
\* attempts and escalated issues no further playAsync.
C29_EscalationOrdered ==
  [][(/\ lastOp'.name = "healthCheck"
      /\ Stopped(Cur)
      /\ stuckTicks >= 1)
     => tickPlays' = 0]_vars

\* C23: when 12 seconds of continuous playback have been followed, the
\* position store has received exactly 2 writes for the playing track.
C23_TwoWritesInTwelveSeconds ==
  playedMillis = SimMillis => writes = 2

\* C28: getPlayerPosition(id) is 0 for a track without a stored position;
\* after a savePlayerPosition(id, p) that reached the storage it is p for id
\* and what it was before for every other id.
C28_PositionRoundTrip ==
  /\ [](\A audioId \in Tracks :
          PositionKey(audioId) \notin DOMAIN storage => getPlayerPosition(storage, audioId) = 0)
  /\ [][lastOp'.name = "savePlayerPosition"
        => \A audioId \in Tracks :
             getPlayerPosition(storage', audioId) =
               IF lastOp'.list = <<audioId>> THEN lastOp'.index
               ELSE getPlayerPosition(storage, audioId)]_vars

\* a position with decimals was saved for one track, another track
\* holds its own position, and the last read returned the first track's
C28_Witness ==
  /\ lastOp.name = "getPlayerPosition"
  /\ lastOp.list = <<1>>
  /\ loadedPosition = 5050
  /\ getPlayerPosition(storage, 2) = 1500

\* the number of entries of the array s that equal x
Occurrences(s, x) == Cardinality({k \in DOMAIN s : s[k] = x})

\* a and b hold the same track ids, each the same number of times, and no
\* undefined entry
IsPermutation(a, b) ==
  /\ Len(a) = Len(b)
  /\ \A k \in DOMAIN a : a[k] \in Tracks
  /\ \A x \in Tracks : Occurrences(a, x) = Occurrences(b, x)

\* C31: a toggleShuffle call that enables shuffle while currentIndex is inside
\* the playlist leaves a permutation of the playlist it found, with the track
\* that was at currentIndex now at index 0 and currentIndex = 0, whatever the
\* random draws.
C31_ShufflePermutes ==
  [][(/\ lastOp'.name = "toggleShuffle"
      /\ ~isShuffled
      /\ 0 <= currentIndex
      /\ currentIndex < Len(playlist))
     => (/\ IsPermutation(playlist', playlist)
         /\ At(playlist', 0) = At(playlist, currentIndex)
         /\ currentIndex' = 0)]_vars

\* C33: in every reachable state the playlist is a permutation of
\* originalPlaylist.
C33_PlaylistPermutesOriginal == IsPermutation(playlist, originalPlaylist)

\* C32: in a build without background audio (Expo Go on iOS) a lifecycle
\* transition commands no sound and starts no health-check interval, and no
\* background fetch task is registered.
C32_UnsupportedSkipsBackground ==
  /\ [][(~SupportsBackgroundAudio /\ lastOp'.name = "appState")
        => UNCHANGED <<sounds, healthChecks, backgroundTaskId>>]_vars
  /\ [](~SupportsBackgroundAudio => ~fetchTask)

\* C36: at most one health-check interval is scheduled at any time.
C36_OneHealthCheckInterval == healthChecks <= 1

\* the user has paused: a sound is loaded, no pauseAudio call is in flight and
\* the session does not say playing (under SpecTicks only pauseAudio leaves
\* that state)
UserPaused ==
  /\ soundRef # Null
  /\ sounds[soundRef].loaded
  /\ ~pausing
  /\ ~isPlaying

\* C34: once pauseAudio has completed, a health check that was in flight when
\* the user paused does not start the sound again when it ends.
C34_PauseSticks ==
  [][(lastOp'.name = "tickEnd" /\ UserPaused) => ~sounds'[soundRef'].playing]_vars

\* C37: at most one health check is inside its recovery sequence at any time.
C37_TicksDoNotOverlap == Len(inFlight) <= 1

\* C35: when stopAudio ran while the only playAudio call in flight was awaiting
\* its sound, the session is Idle once that load has completed: no sound
\* loaded or playing, isPlaying and the hint false, no position timer.
C35_StopWinsOverLoad ==
  [][(/\ lastOp.name = "stopAudio"
      /\ lastOp'.name = "loadDone"
      /\ Len(loads) = 1)
     => (/\ Idle'
         /\ ~bgIsPlaying'
         /\ ~positionUpdateInterval')]_vars

\* C38: when the last playAudio call in flight has completed, the sound the
\* session holds, which is also the one the guard holds, was created for the
\* current track.
C38_LastPlayWins ==
  [][(/\ lastOp'.name = "loadDone"
      /\ loads' = <<>>
      /\ currentAudio' # Null)
     => (/\ sounds'[soundRef'].track = currentAudio'
         /\ bgSound' = soundRef')]_vars

\* C39: downloadMultipleParallel never has more than maxConcurrency downloads
\* unsettled at once, and when it has returned every download of the list has
\* been started and has settled.
C39_ConcurrencyBounded ==
  /\ Cardinality(download.running) <= download.maxConcurrency
  /\ download.pc = "returned" => (download.next > download.list /\ download.running = {})

\* a call with more downloads than the limit has returned, one download
\* having failed
C39_Witness ==
  /\ download.pc = "returned"
  /\ download.list = MaxDownloads
  /\ download.maxConcurrency = 2
  /\ Len(download.results) = MaxDownloads - 1

\* C40: once clearAllData has completed, getPlayerPosition returns 0 for every
\* track id, also for the ids whose position was saved before.
C40_ClearForgetsPositions ==
  [][lastOp'.name = "clearAllData" =>
       \A audioId \in Tracks : getPlayerPosition(storage', audioId) = 0]_vars

====
